---- MODULE Spec2Model ----
(***************************************************************************)
(* Model of signdriver.py: the LED sign driver (LEDSign), its page         *)
(* configuration transaction (ConfigurationManager) and the format tree    *)
(* (BaseFormat and its subclasses).                                        *)
(*                                                                         *)
(* Bytes are integers 0..255; a bytes object and a str are sequences of    *)
(* integers (byte values, resp. code points).  The address None is the     *)
(* integer None below.  A mode of None is the empty sequence: None and b"" *)
(* are both falsy, and the code only ever uses "mode or AUTOMODE".         *)
(***************************************************************************)
EXTENDS Integers, Sequences, FiniteSets, TLC

(***************************************************************************)
(* Bounds of the model.                                                    *)
(***************************************************************************)
\* longest sequence of successful set_* calls followed inside one scope
MaxCalls == 3
\* deepest nesting of single-child wrappers in a rendered format tree
MaxDepth == 2

(***************************************************************************)
(* Protocol constants, class LEDSign.                                      *)
(***************************************************************************)
None == -1

PREAMBLE == <<0, 0, 0, 0, 0>>
SOH == <<1>>
STX == <<2>>
ETX == <<3>>
EOT == <<4>>
ESC == <<27>>

AUTOMODE == <<111>>     \* b"o"
ALL_SIGNS == <<90>>     \* b"Z"

\* the sign type constants ONLY_ONE_LINE_SIGNS .. ONLY_4080
SignTypes ==
    {<<c>> : c \in {49, 50, 67, 68, 69, 85, 116} \cup (97 .. 106)}

\* the set __check_mode tests membership in: a b c, e..m, o..v, n0..n9
LegalModes ==
    {<<c>> : c \in {97, 98, 99} \cup (101 .. 109) \cup (111 .. 118)}
        \cup {<<110, d>> : d \in 48 .. 57}

SUPPORTS_FLASH == 1
SUPPORTS_COLOR == 2

\* supportmask & bit, for the two one-bit flags
HasBit(supportmask, bit) == (supportmask \div bit) % 2 = 1

(***************************************************************************)
(* Sequences of bytes.                                                     *)
(***************************************************************************)
RECURSIVE Concat(_)
\* b"".join(parts)
Concat(parts) ==
    IF parts = <<>> THEN <<>> ELSE Head(parts) \o Concat(Tail(parts))

\* the least index >= from at which sub occurs in s, or 0
FindFrom(sub, s, from) ==
    LET hits == {i \in from .. (Len(s) - Len(sub) + 1) :
                    SubSeq(s, i, i + Len(sub) - 1) = sub}
    IN  IF hits = {} THEN 0 ELSE CHOOSE i \in hits : \A j \in hits : i <= j

\* sub in s
Contains(sub, s) == FindFrom(sub, s, 1) # 0

\* s.split(sep, 1): one part when sep does not occur, else two
Split1(s, sep) ==
    LET i == FindFrom(sep, s, 1)
    IN  IF i = 0 THEN <<s>>
        ELSE <<SubSeq(s, 1, i - 1), SubSeq(s, i + Len(sep), Len(s))>>

RECURSIVE SplitAll(_, _)
\* s.split(sep)
SplitAll(s, sep) ==
    LET i == FindFrom(sep, s, 1)
    IN  IF i = 0 THEN <<s>>
        ELSE <<SubSeq(s, 1, i - 1)>>
                \o SplitAll(SubSeq(s, i + Len(sep), Len(s)), sep)

RECURSIVE Join(_, _)
\* sep.join(parts)
Join(sep, parts) ==
    IF parts = <<>> THEN <<>>
    ELSE IF Len(parts) = 1 THEN parts[1]
    ELSE parts[1] \o sep \o Join(sep, Tail(parts))

\* text.encode('ascii') and bytes.decode('ascii') succeed
IsAscii(text) == \A i \in 1 .. Len(text) : text[i] < 128

(***************************************************************************)
(* Validators and the hex encoder.                                         *)
(***************************************************************************)
\* _check_label does not raise
_check_label(label) ==
    /\ Len(label) = 1
    /\ ~ (label[1] < 32 \/ label[1] > 126)

\* __check_address does not raise
__check_address(a) == ~ (a < 1 \/ a > 255)

\* __check_mode does not raise
__check_mode(mode) == mode \in LegalModes

\* mode or self.AUTOMODE
ModeOr(mode) == IF mode = <<>> THEN AUTOMODE ELSE mode

HexDigit(d) == IF d < 10 THEN 48 + d ELSE 87 + d

RECURSIVE HexStr(_)
\* the digits of hex(v) for v >= 0
HexStr(v) ==
    IF v < 16 THEN <<HexDigit(v)>>
    ELSE Append(HexStr(v \div 16), HexDigit(v % 16))

\* hex(value)[2:]: "0x.." loses "0x", "-0x.." loses "-0"
PyHex(value) ==
    IF value >= 0 THEN HexStr(value) ELSE <<120>> \o HexStr(0 - value)

RECURSIVE PadHex(_, _)
PadHex(hexbytes, length) ==
    IF Len(hexbytes) < length THEN PadHex(<<48>> \o hexbytes, length)
    ELSE hexbytes

\* _make_hex without its padding loop
_make_hex_Unpadded(value, length) == PyHex(value)

_make_hex(value, length) == PadHex(PyHex(value), length)

(***************************************************************************)
(* Format trees: BaseFormat and its subclasses.  A node is a record; the   *)
(* fields a subclass does not have are left empty.  String and Picture     *)
(* check their label in the constructor, so a tree only holds valid ones.  *)
(***************************************************************************)
Node(kind, text, code, label, children) ==
    [kind |-> kind, text |-> text, code |-> code, label |-> label,
     children |-> children]

Text(text) == Node("Text", text, 0, <<>>, <<>>)
Small(children) == Node("Small", <<>>, 0, <<>>, children)
Fancy(children) == Node("Fancy", <<>>, 0, <<>>, children)
Wide(children) == Node("Wide", <<>>, 0, <<>>, children)
Fixed(children) == Node("Fixed", <<>>, 0, <<>>, children)
Flash(children) == Node("Flash", <<>>, 0, <<>>, children)
_Color(code, children) == Node("Color", <<>>, code, <<>>, children)
Red(children) == _Color(49, children)
Green(children) == _Color(50, children)
Amber(children) == _Color(51, children)
Striped(children) == _Color(57, children)
Mixed(children) == _Color(65, children)
String(label) == Node("String", <<>>, 0, label, <<>>)
Picture(label) == Node("Picture", <<>>, 0, label, <<>>)
Newline == Text(<<13>>)

RECURSIVE RenderOk(_)
\* render raises nothing: every Text below the node encodes as ASCII
RenderOk(node) ==
    /\ node.kind = "Text" => IsAscii(node.text)
    /\ \A i \in 1 .. Len(node.children) : RenderOk(node.children[i])

RECURSIVE Render(_, _)
RECURSIVE RenderAll(_, _)
\* b"".join(c.render(supportmask) for c in children)
RenderAll(children, supportmask) ==
    IF children = <<>> THEN <<>>
    ELSE Render(Head(children), supportmask)
            \o RenderAll(Tail(children), supportmask)

\* the open and close bytes of the wrappers that render unconditionally
WrapOpen(kind) ==
    CASE kind = "Small" -> <<26, 49>>
      [] kind = "Fancy" -> <<26, 56>>
      [] kind = "Wide" -> <<18>>
      [] kind = "Fixed" -> <<30, 49>>

WrapClose(kind) ==
    CASE kind = "Small" -> <<26, 57>>
      [] kind = "Fancy" -> <<26, 57>>
      [] kind = "Wide" -> <<17>>
      [] kind = "Fixed" -> <<30, 48>>

\* Flash.render
RenderFlash(node, supportmask) ==
    IF HasBit(supportmask, SUPPORTS_FLASH)
    THEN <<7, 49>> \o RenderAll(node.children, supportmask) \o <<7, 48>>
    ELSE RenderAll(node.children, supportmask)

\* _Color.render testing the flash bit, as copied from Flash.render
RenderColor_FlashBit(node, supportmask) ==
    IF HasBit(supportmask, SUPPORTS_FLASH)
    THEN <<28, node.code>> \o RenderAll(node.children, supportmask)
            \o <<28, 67>>
    ELSE RenderAll(node.children, supportmask)

\* _Color.render
RenderColor(node, supportmask) ==
    IF HasBit(supportmask, SUPPORTS_COLOR)
    THEN <<28, node.code>> \o RenderAll(node.children, supportmask)
            \o <<28, 67>>
    ELSE RenderAll(node.children, supportmask)

\* node.render(supportmask)
Render(node, supportmask) ==
    CASE node.kind = "Text" -> node.text
      [] node.kind \in {"Small", "Fancy", "Wide", "Fixed"} ->
            WrapOpen(node.kind) \o RenderAll(node.children, supportmask)
                \o WrapClose(node.kind)
      [] node.kind = "Flash" -> RenderFlash(node, supportmask)
      [] node.kind = "Color" -> RenderColor(node, supportmask)
      [] node.kind = "String" -> <<16>> \o node.label
      [] node.kind = "Picture" -> <<20>> \o node.label

(***************************************************************************)
(* ConfigurationManager: the descriptors and the accumulator.  The dict    *)
(* __accum is the sequence of its items in insertion order.                *)
(***************************************************************************)
Item(label, val) == [label |-> label, val |-> val]

\* AccumSet as a list would do it: the old item is removed, the new one is last
AccumSet_MoveToEnd(accum, label, val) ==
    Append(SelectSeq(accum, LAMBDA item : item.label # label),
           Item(label, val))

\* self.__accum[label] = val: a present key keeps its place, a new one is last
AccumSet(accum, label, val) ==
    IF \E i \in 1 .. Len(accum) : accum[i].label = label
    THEN [i \in 1 .. Len(accum) |->
            IF accum[i].label = label THEN Item(label, val) ELSE accum[i]]
    ELSE Append(accum, Item(label, val))

\* the value set_text stores
TextDescriptor(label, size) ==
    label \o <<65>> \o <<76>> \o _make_hex(size, 4) \o <<70, 70, 48, 48>>

\* the value set_string stores
StringDescriptor(label, size) ==
    label \o <<66>> \o <<76>> \o _make_hex(size, 4) \o <<48, 48, 48, 48>>

\* the size code set_picture chooses
ColorSize(colors) ==
    IF colors = 1 THEN <<49, 48, 48, 48>>
    ELSE IF colors = 2 THEN <<50, 48, 48, 48>>
    ELSE <<52, 48, 48, 48>>

\* the value set_picture stores
PictureDescriptor(label, width, height, colors) ==
    label \o <<68>> \o <<76>> \o _make_hex(height, 2) \o _make_hex(width, 2)
        \o ColorSize(colors)

\* the payload __exit__ sends on success
CommitPayload(accum) ==
    <<69, 36>> \o Concat([i \in 1 .. Len(accum) |-> accum[i].val])

(***************************************************************************)
(* Picture encoding, write_picture.                                        *)
(***************************************************************************)
\* val.upper() of a one-character ASCII string
Upper(val) == IF val >= 97 /\ val <= 122 THEN val - 32 ELSE val

\* _color_lut(val), 0 when it raises
_color_lut(val) ==
    LET v == Upper(val)
    IN  IF v = 45 THEN 48
        ELSE IF v = 82 THEN 49
        ELSE IF v = 71 THEN 50
        ELSE IF v = 65 THEN 51
        ELSE IF v = 114 THEN 52
        ELSE IF v = 103 THEN 53
        ELSE IF v = 97 THEN 54
        ELSE 0

\* bytes(_color_lut(val) for val in row) + b"\r\n"
EncodeRow(row) == [j \in 1 .. Len(row) |-> _color_lut(row[j])] \o <<13, 10>>

\* every _color_lut call of write_picture returns
ColorsOk(picture) ==
    \A i \in 1 .. Len(picture) : \A j \in 1 .. Len(picture[i]) :
        _color_lut(picture[i][j]) # 0

\* the command write_picture sends
PicturePayload(label, picture) ==
    <<73>> \o label \o _make_hex(Len(picture), 2)
        \o _make_hex(Len(picture[1]), 2)
        \o Concat([i \in 1 .. Len(picture) |-> EncodeRow(picture[i])])

(***************************************************************************)
(* State.                                                                  *)
(***************************************************************************)
VARIABLES
    address,    \* LEDSign.address: 1..255, or None for broadcast
    mask,       \* LEDSign.__mask
    op,         \* the operation called last
    arg,        \* its arguments
    outcome,    \* "ok", "pending" while a read loops, or the error raised
    wire,       \* the frames the operation called last wrote to the port
    result,     \* what a read operation returned
    scope,      \* a "with sign.set_configuration()" block is open
    accum,      \* ConfigurationManager.__accum
    calls,      \* the set_* calls that succeeded in the scope, in order
    pc,         \* "idle"; "reading" in the loop of a read operation, "done" at its end
    retval,     \* the buffer of the read loop
    clock,      \* time.time() - old at the head of the read loop, in seconds
    stream,     \* the bytes the sign has yet to deliver to the port
    rendered    \* what the last direct render call returned

vars == <<address, mask, op, arg, outcome, wire, result, scope, accum, calls,
          pc, retval, clock, stream, rendered>>

\* the 5.0 of "while time.time() - old < 5.0"
Budget == 5
\* serial.Serial(port, 9600, timeout=1)
ReadTimeoutSecs == 1

\* override_sign_types=None; a value no bytes object equals
NoOverride == <<None>>

\* the bytes _send_command writes
_send_command(command, override_sign_types) ==
    PREAMBLE \o SOH
        \o (IF override_sign_types # NoOverride THEN override_sign_types
            ELSE ALL_SIGNS)
        \o _make_hex(IF address = None \/ address = 0 THEN 0 ELSE address, 2)
        \o STX \o command \o EOT

\* how a call ends: the error it raises and the frames it wrote
Fail(error) == [outcome |-> error, wire |-> <<>>]
\* a call that writes nothing and returns
Done == [outcome |-> "ok", wire |-> <<>>]

\* a call that ends in _send_command; serial.write raises when ok is FALSE
Send(command, override_sign_types, ok) ==
    IF ok
    THEN [outcome |-> "ok",
          wire |-> <<_send_command(command, override_sign_types)>>]
    ELSE Fail("TransportError")

Call(name, a, r) ==
    /\ op' = name
    /\ arg' = a
    /\ outcome' = r.outcome
    /\ wire' = r.wire
    /\ result' = <<>>

Idle == ~ scope /\ pc = "idle"

(***************************************************************************)
(* Inputs.                                                                 *)
(***************************************************************************)
\* the addresses LEDSign is constructed with
InitAddresses == {None, 1}
\* the arguments of change_address
NewAddresses == {0, 255, 256}
\* "A", "~", and labels _check_label refuses
DriverLabels == {<<65>>, <<126>>, <<>>, <<65, 66>>, <<31>>, <<127>>}
\* "", "hi", "a\rb", and a text that is not ASCII
Texts == {<<>>, <<104, 105>>, <<97, 13, 98>>, <<104, 233>>}
\* None, HOLD, TWINKLE, and the illegal b"d" and b"n"
Modes == {<<>>, <<98>>, <<110, 48>>, <<100>>, <<110>>}
Overrides == {NoOverride, <<49>>, <<106>>}

TextA == Text(<<97>>)
TextB == Text(<<98>>)

\* the *formatting arguments of write_format
Formats ==
    { <<>>,
      <<TextA>>,
      <<Text(<<>>)>>,
      <<Text(<<104, 233>>)>>,
      <<TextA, Newline, TextB>>,
      <<Flash(<<Red(<<TextA>>), TextB>>)>>,
      <<Small(<<Flash(<<TextA>>), Newline>>), Mixed(<<TextB>>)>>,
      <<Small(<<TextA, Newline, TextB>>), Newline, Wide(<<TextB>>)>>,
      <<Striped(<<TextA>>), String(<<66>>), Picture(<<67>>)>> }

\* a picture of height rows of width times the symbol val
Uniform(height, width, val) ==
    [i \in 1 .. height |-> [j \in 1 .. width |-> val]]

\* the pictures of write_picture; the first two rows of the demo program,
\* a lower-case row, an unknown symbol, rows of unequal length, no rows,
\* and grids at and over 31 rows and 255 columns
Pictures ==
    { <<>>,
      << <<45, 45, 82, 65, 71, 71>>, <<45, 45, 82, 65, 71, 71>> >>,
      << <<45, 114, 103, 97>> >>,
      << <<82, 88>> >>,
      << <<82, 71>>, <<82>> >>,
      Uniform(31, 1, 82), Uniform(32, 1, 82),
      Uniform(1, 255, 71), Uniform(1, 256, 71) }

(***************************************************************************)
(* LEDSign: the operations that write one command.                         *)
(***************************************************************************)
Init ==
    /\ address \in InitAddresses
    /\ mask \in 0 .. 3
    /\ op = "init"
    /\ arg = [none |-> TRUE]
    /\ outcome = "ok"
    /\ wire = <<>>
    /\ result = <<>>
    /\ scope = FALSE
    /\ accum = <<>>
    /\ calls = <<>>
    /\ pc = "idle"
    /\ retval = <<>>
    /\ clock = 0
    /\ stream = <<>>
    /\ rendered = <<>>

write_text(label, text, mode, ok) ==
    /\ Idle
    /\ Call("write_text", [label |-> label, text |-> text, mode |-> mode],
            IF Len(text) < 1 THEN Fail("EmptyText")
            ELSE IF ~ _check_label(label) THEN Fail("InvalidLabel")
            ELSE IF ~ __check_mode(ModeOr(mode)) THEN Fail("InvalidMode")
            ELSE IF ~ IsAscii(text) THEN Fail("EncodingError")
            ELSE Send(<<65>> \o label \o ESC \o <<48>> \o ModeOr(mode)
                        \o text, NoOverride, ok))
    /\ UNCHANGED <<address, mask, scope, accum, calls, pc, retval, clock,
                   stream, rendered>>

\* write_string without its _check_label call
write_string_NoLabelCheck(label, text, ok) ==
    /\ Idle
    /\ Call("write_string", [label |-> label, text |-> text],
            IF Len(text) < 1 THEN Fail("EmptyText")
            ELSE IF ~ IsAscii(text) THEN Fail("EncodingError")
            ELSE Send(<<71>> \o label \o text, NoOverride, ok))
    /\ UNCHANGED <<address, mask, scope, accum, calls, pc, retval, clock,
                   stream, rendered>>

write_string(label, text, ok) ==
    /\ Idle
    /\ Call("write_string", [label |-> label, text |-> text],
            IF Len(text) < 1 THEN Fail("EmptyText")
            ELSE IF ~ _check_label(label) THEN Fail("InvalidLabel")
            ELSE IF ~ IsAscii(text) THEN Fail("EncodingError")
            ELSE Send(<<71>> \o label \o text, NoOverride, ok))
    /\ UNCHANGED <<address, mask, scope, accum, calls, pc, retval, clock,
                   stream, rendered>>

\* fixeddata of write_format, from the rendered bytes split at "\r"
FixedData(data, mode, split_animation) ==
    IF Len(data) = 1 \/ ~ split_animation
    THEN ESC \o <<48>> \o ModeOr(mode) \o Join(<<13>>, data)
    ELSE LET total == Len(data)
             top == total \div 2
         IN  ESC \o <<34>> \o ModeOr(mode)
                \o Join(<<13>>, SubSeq(data, 1, top))
                \o ESC \o <<38>> \o ModeOr(mode)
                \o Join(<<13>>, SubSeq(data, top + 1, total))

write_format(label, formatting, mode, split_animation, ok) ==
    /\ Idle
    /\ Call("write_format",
            [label |-> label, formatting |-> formatting, mode |-> mode,
             split_animation |-> split_animation],
            IF Len(formatting) < 1 THEN Fail("EmptyFormatting")
            ELSE IF ~ _check_label(label) THEN Fail("InvalidLabel")
            ELSE IF ~ __check_mode(ModeOr(mode)) THEN Fail("InvalidMode")
            ELSE IF \E i \in 1 .. Len(formatting) : ~ RenderOk(formatting[i])
                 THEN Fail("EncodingError")
            ELSE Send(<<65>> \o label \o ESC \o <<48>> \o ModeOr(mode)
                        \o FixedData(SplitAll(RenderAll(formatting, mask),
                                              <<13>>),
                                     mode, split_animation),
                      NoOverride, ok))
    /\ UNCHANGED <<address, mask, scope, accum, calls, pc, retval, clock,
                   stream, rendered>>

write_picture(label, picture, ok) ==
    /\ Idle
    /\ Call("write_picture", [label |-> label, picture |-> picture],
            IF picture = <<>> THEN Fail("IndexError")
            ELSE IF \E i \in 1 .. Len(picture) :
                        Len(picture[i]) # Len(picture[1])
                 THEN Fail("MalformedGrid")
            ELSE IF ~ _check_label(label) THEN Fail("InvalidLabel")
            ELSE IF ~ ColorsOk(picture) THEN Fail("InvalidColorSymbol")
            ELSE Send(PicturePayload(label, picture), NoOverride, ok))
    /\ UNCHANGED <<address, mask, scope, accum, calls, pc, retval, clock,
                   stream, rendered>>

\* change_address that binds the new address before it sends the command
change_address_BindsFirst(new_address, override_sign_types, ok) ==
    /\ Idle
    /\ Call("change_address",
            [new_address |-> new_address,
             override_sign_types |-> override_sign_types],
            IF ~ __check_address(new_address) THEN Fail("InvalidAddress")
            ELSE Send(<<69, 55>> \o _make_hex(new_address, 2),
                      override_sign_types, ok))
    /\ address' = IF __check_address(new_address) THEN new_address
                  ELSE address
    /\ UNCHANGED <<mask, scope, accum, calls, pc, retval, clock, stream,
                   rendered>>

change_address(new_address, override_sign_types, ok) ==
    /\ Idle
    /\ Call("change_address",
            [new_address |-> new_address,
             override_sign_types |-> override_sign_types],
            IF ~ __check_address(new_address) THEN Fail("InvalidAddress")
            ELSE Send(<<69, 55>> \o _make_hex(new_address, 2),
                      override_sign_types, ok))
    /\ address' = IF __check_address(new_address) /\ ok THEN new_address
                  ELSE address
    /\ UNCHANGED <<mask, scope, accum, calls, pc, retval, clock, stream,
                   rendered>>

clear_configuration(ok) ==
    /\ Idle
    /\ Call("clear_configuration", [none |-> TRUE],
            Send(<<69, 36>>, NoOverride, ok))
    /\ UNCHANGED <<address, mask, scope, accum, calls, pc, retval, clock,
                   stream, rendered>>

(***************************************************************************)
(* ConfigurationManager: the scope of "with sign.set_configuration()".     *)
(***************************************************************************)
\* the arguments of set_text: the labels "A", "B", the priority label "0"
\* and DEL
SetTextArgs == {<<65>>, <<66>>, <<48>>, <<127>>} \X {64}
\* the arguments of set_string, with the reserved label "?" and a size
\* over 125
SetStringArgs ==
    ({<<65>>, <<66>>, <<48>>, <<63>>} \X {64}) \cup {<<<<65>>, 126>>}
\* the label, width, height and colors of set_picture
SetPictureArgs ==
    ({<<65>>, <<66>>, <<48>>} \X {<<6, 6, 3>>})
        \cup ({<<65>>} \X {<<255, 31, 1>>, <<6, 6, 2>>, <<256, 6, 1>>,
                            <<6, 32, 1>>})

\* set_configuration() and __enter__
set_configuration ==
    /\ Idle
    /\ scope' = TRUE
    /\ accum' = <<>>
    /\ calls' = <<>>
    /\ Call("set_configuration", [none |-> TRUE], Done)
    /\ UNCHANGED <<address, mask, pc, retval, clock, stream, rendered>>

\* the end of a set_* call: it raises error, or stores val under label
Store(name, a, error, label, val) ==
    /\ Call(name, a, Fail(error))
    /\ accum' = IF error = "ok" THEN AccumSet(accum, label, val) ELSE accum
    /\ calls' = IF error = "ok" THEN Append(calls, Item(label, val))
                ELSE calls
    /\ UNCHANGED <<address, mask, scope, pc, retval, clock, stream,
                   rendered>>

set_text(label, size) ==
    /\ scope
    /\ Len(calls) < MaxCalls
    /\ Store("set_text", [label |-> label, size |-> size],
            IF ~ _check_label(label) THEN "InvalidLabel"
            ELSE IF label = <<48>> THEN "ReservedLabel"
            ELSE "ok",
            label, TextDescriptor(label, size))

set_string(label, size) ==
    /\ scope
    /\ Len(calls) < MaxCalls
    /\ Store("set_string", [label |-> label, size |-> size],
            IF ~ _check_label(label) THEN "InvalidLabel"
            ELSE IF label = <<48>> \/ label = <<63>> THEN "ReservedLabel"
            ELSE IF size > 125 THEN "SizeLimitExceeded"
            ELSE "ok",
            label, StringDescriptor(label, size))

set_picture(label, width, height, colors) ==
    /\ scope
    /\ Len(calls) < MaxCalls
    /\ Store("set_picture",
            [label |-> label, width |-> width, height |-> height,
             colors |-> colors],
            IF ~ _check_label(label) THEN "InvalidLabel"
            ELSE IF label = <<48>> THEN "ReservedLabel"
            ELSE IF width > 255 \/ height > 31 THEN "SizeLimitExceeded"
            ELSE IF colors \notin {1, 3, 8} THEN "InvalidColors"
            ELSE "ok",
            label, PictureDescriptor(label, width, height, colors))

\* __exit__ with type None: the block ran to its end.  The manager is
\* dropped with the block, and its accumulator with it.
exit_normal(ok) ==
    /\ scope
    /\ scope' = FALSE
    /\ Call("exit", [type |-> "None"],
            Send(CommitPayload(accum), NoOverride, ok))
    /\ accum' = <<>>
    /\ calls' = <<>>
    /\ UNCHANGED <<address, mask, pc, retval, clock, stream, rendered>>

\* __exit__ without its "type is None" test: the commit is sent anyway
exit_error_Commits ==
    /\ scope
    /\ scope' = FALSE
    /\ Call("exit", [type |-> "Exception"],
            Send(CommitPayload(accum), NoOverride, TRUE))
    /\ accum' = <<>>
    /\ calls' = <<>>
    /\ UNCHANGED <<address, mask, pc, retval, clock, stream, rendered>>

\* __exit__ with an exception type: the block raised, and the exception
\* goes on to the caller
exit_error ==
    /\ scope
    /\ scope' = FALSE
    /\ Call("exit", [type |-> "Exception"], Fail("Exception"))
    /\ accum' = <<>>
    /\ calls' = <<>>
    /\ UNCHANGED <<address, mask, pc, retval, clock, stream, rendered>>

(***************************************************************************)
(* LEDSign: the read operations.                                           *)
(***************************************************************************)
\* the start-of-frame sequence the loop looks for
SOF == PREAMBLE \o SOH

\* what the sign may send back: a stray end marker or nothing, a start of
\* frame or a short preamble, the address "Z00", a body with or without
\* its payload start, and an end marker or nothing
Bodies ==
    { STX \o <<71, 65, 120>>,
      <<71, 65, 120>>,
      STX \o <<71, 65, 200>>,
      STX \o <<69, 45, 103>> \o ETX \o <<99>> }

Streams ==
    { lead \o start \o <<90, 48, 48>> \o body \o end :
        lead \in {<<>>, EOT},
        start \in {SOF, <<0, 0, 0, 0, 1>>},
        body \in Bodies,
        end \in {<<>>, EOT} } \cup {<<>>}

\* lines 447-456 and 385-394: what the loop does once both markers are in
\* retval; tag is the expected start of the response
ParseResponse(buffer, tag, isString) ==
    LET rest == Split1(buffer, SOF)[2]
        byEot == Split1(rest, EOT)
        packet == byEot[1]
        byStx == Split1(packet, STX)
        chunk == byStx[2]
        response == IF Contains(ETX, chunk) THEN Split1(chunk, ETX)[1]
                    ELSE chunk
        n == Len(response)
    IN  IF Len(byEot) # 2 THEN [outcome |-> "ValueError", result |-> <<>>]
        ELSE IF Len(byStx) # 2
             THEN [outcome |-> "ValueError", result |-> <<>>]
        ELSE IF SubSeq(response, 1, IF n < 2 THEN n ELSE 2) # tag
             THEN [outcome |-> "UnexpectedResponse", result |-> <<>>]
        ELSE IF isString
             THEN IF IsAscii(SubSeq(response, 3, n))
                  THEN [outcome |-> "ok", result |-> SubSeq(response, 3, n)]
                  ELSE [outcome |-> "UnicodeDecodeError", result |-> <<>>]
        ELSE [outcome |-> "ok",
              result |-> SubSeq(response, 3, IF n < 3 THEN n ELSE 3)]

\* a read operation up to the head of its loop
StartRead(name, a, r, s) ==
    /\ Call(name, a, IF r.outcome = "ok" THEN [r EXCEPT !.outcome = "pending"]
                     ELSE r)
    /\ pc' = IF r.outcome = "ok" THEN "reading" ELSE "idle"
    /\ retval' = <<>>
    /\ clock' = 0
    /\ stream' = IF r.outcome = "ok" THEN s ELSE <<>>
    /\ UNCHANGED <<address, mask, scope, accum, calls, rendered>>

read_string(label, s, ok) ==
    /\ Idle
    /\ StartRead("read_string", [label |-> label],
              IF ~ _check_label(label) THEN Fail("InvalidLabel")
              ELSE Send(<<72>> \o label, NoOverride, ok),
              s)

read_sign_type(s, ok) ==
    /\ Idle
    /\ StartRead("read_sign_type", [none |-> TRUE],
              Send(<<70, 45>>, NoOverride, ok), s)

\* the response tag the running read operation expects
ExpectedTag == IF op = "read_string" THEN <<71>> \o arg.label ELSE <<69, 45>>

\* the loop goes on: time.time() - old < 5.0
LoopGuard(elapsed) == elapsed < Budget

\* read_loop with "old = time.time()" inside the loop: the time spent by the
\* earlier turns is forgotten
read_loop_ClockReset(got, dt) ==
    /\ pc = "reading"
    /\ LoopGuard(clock)
    /\ \/ got = <<>> /\ dt = ReadTimeoutSecs
       \/ stream # <<>> /\ got = <<Head(stream)>> /\ dt \in 0 .. ReadTimeoutSecs
    /\ retval' = retval \o got
    /\ stream' = IF got = <<>> THEN stream ELSE Tail(stream)
    /\ clock' = dt
    /\ LET buffer == retval \o got
       IN  IF Contains(SOF, buffer) /\ Contains(EOT, buffer)
           THEN LET r == ParseResponse(buffer, ExpectedTag,
                                       op = "read_string")
                IN  /\ pc' = "done"
                    /\ outcome' = r.outcome
                    /\ result' = r.result
           ELSE UNCHANGED <<pc, outcome, result>>
    /\ UNCHANGED <<address, mask, op, arg, wire, scope, accum, calls,
                   rendered>>

\* one turn of the loop: serial.read() returns the next byte after dt
\* seconds, or nothing after its timeout; then the markers are looked for
read_loop(got, dt) ==
    /\ pc = "reading"
    /\ LoopGuard(clock)
    /\ \/ got = <<>> /\ dt = ReadTimeoutSecs
       \/ stream # <<>> /\ got = <<Head(stream)>> /\ dt \in 0 .. ReadTimeoutSecs
    /\ retval' = retval \o got
    /\ stream' = IF got = <<>> THEN stream ELSE Tail(stream)
    /\ clock' = clock + dt
    /\ LET buffer == retval \o got
       IN  IF Contains(SOF, buffer) /\ Contains(EOT, buffer)
           THEN LET r == ParseResponse(buffer, ExpectedTag,
                                       op = "read_string")
                IN  /\ pc' = "done"
                    /\ outcome' = r.outcome
                    /\ result' = r.result
           ELSE UNCHANGED <<pc, outcome, result>>
    /\ UNCHANGED <<address, mask, op, arg, wire, scope, accum, calls,
                   rendered>>

\* the loop ends without a frame: raise Exception("Failed to read ...")
read_timeout ==
    /\ pc = "reading"
    /\ ~ LoopGuard(clock)
    /\ pc' = "done"
    /\ outcome' = "ReadTimeout"
    /\ UNCHANGED <<address, mask, op, arg, wire, result, scope, accum, calls,
                   retval, clock, stream, rendered>>

\* the read operation returns or raises: its locals are gone, and the port
\* is left to the next operation
read_return ==
    /\ pc = "done"
    /\ pc' = "idle"
    /\ retval' = <<>>
    /\ clock' = 0
    /\ stream' = <<>>
    /\ UNCHANGED <<address, mask, op, arg, outcome, wire, result, scope,
                   accum, calls, rendered>>

(***************************************************************************)
(* The driver.                                                             *)
(***************************************************************************)
\* The arguments the operations are called with.  A call has a good label
\* and any other arguments, or a bad label and plain other arguments.
WriteTextArgs ==
    {<<label, text, mode>> \in DriverLabels \X Texts \X Modes :
        label = <<65>> \/ (text = <<104, 105>> /\ mode = <<>>)}

WriteStringArgs ==
    {<<label, text>> \in DriverLabels \X Texts :
        label = <<65>> \/ text = <<104, 105>>}

WriteFormatArgs ==
    {<<label, formatting, mode, split_animation>> \in
            DriverLabels \X Formats \X Modes \X BOOLEAN :
        /\ label = <<65>>
              \/ (formatting = <<TextA>> /\ mode = <<>> /\ ~ split_animation)
        /\ mode = <<>>
              \/ formatting \in {<<TextA>>, <<TextA, Newline, TextB>>}}

WritePictureArgs ==
    {<<label, picture>> \in DriverLabels \X Pictures :
        label = <<65>> \/ picture = << <<45, 114, 103, 97>> >>}

ReadStringArgs ==
    {<<label, s>> \in DriverLabels \X Streams : label = <<65>> \/ s = <<>>}

\* what serial.read() may return: nothing, or the next byte of the stream
Readable == IF stream = <<>> THEN {<<>>} ELSE {<<>>, <<Head(stream)>>}

Next ==
    \/ \E a \in WriteTextArgs, ok \in BOOLEAN :
          write_text(a[1], a[2], a[3], ok)
    \/ \E a \in WriteStringArgs, ok \in BOOLEAN : write_string(a[1], a[2], ok)
    \/ \E a \in WriteFormatArgs, ok \in BOOLEAN :
          write_format(a[1], a[2], a[3], a[4], ok)
    \/ \E a \in WritePictureArgs, ok \in BOOLEAN :
          write_picture(a[1], a[2], ok)
    \/ \E new_address \in NewAddresses, override_sign_types \in Overrides,
          ok \in BOOLEAN :
          change_address(new_address, override_sign_types, ok)
    \/ \E ok \in BOOLEAN : clear_configuration(ok)
    \/ set_configuration
    \/ \E a \in SetTextArgs : set_text(a[1], a[2])
    \/ \E a \in SetStringArgs : set_string(a[1], a[2])
    \/ \E a \in SetPictureArgs :
          set_picture(a[1], a[2][1], a[2][2], a[2][3])
    \/ \E ok \in BOOLEAN : exit_normal(ok)
    \/ exit_error
    \/ \E a \in ReadStringArgs, ok \in BOOLEAN : read_string(a[1], a[2], ok)
    \/ \E s \in Streams, ok \in BOOLEAN : read_sign_type(s, ok)
    \/ \E got \in Readable, dt \in 0 .. ReadTimeoutSecs : read_loop(got, dt)
    \/ read_timeout
    \/ read_return

Spec == Init /\ [][Next]_vars

\* serial.read() finds no byte and returns after its timeout
read_nothing == read_loop(<<>>, ReadTimeoutSecs)

\* The read operations on their own, on a driver that does nothing else.
InitRead == Init /\ mask = 0

NextRead ==
    \/ \E a \in ReadStringArgs, ok \in BOOLEAN : read_string(a[1], a[2], ok)
    \/ \E s \in Streams, ok \in BOOLEAN : read_sign_type(s, ok)
    \/ \E got \in Readable, dt \in 0 .. ReadTimeoutSecs : read_loop(got, dt)
    \/ read_timeout
    \/ read_return

SpecRead == InitRead /\ [][NextRead]_vars

\* The program is sequential, so a running read operation goes on: the loop
\* takes its next turn, and a turn in which the sign sends nothing ends when
\* the timeout of the port has passed; the sign sends finitely many bytes.
FairSpecRead ==
    SpecRead /\ WF_vars(read_nothing) /\ WF_vars(read_timeout)
        /\ WF_vars(read_return)

(***************************************************************************)
(* Rendering on its own: node.render(supportmask), called on a bounded set *)
(* of format trees under each of the four masks.                           *)
(***************************************************************************)
Leaves == {TextA, TextB, String(<<66>>), Text(<<104, 233>>)}

WrapKinds == {"Small", "Wide", "Flash", "Red", "Mixed"}

Wrap(kind, children) ==
    CASE kind = "Small" -> Small(children)
      [] kind = "Wide" -> Wide(children)
      [] kind = "Flash" -> Flash(children)
      [] kind = "Red" -> Red(children)
      [] kind = "Mixed" -> Mixed(children)

RECURSIVE Chains(_)
\* the trees of at most depth wrappers, each around one child
Chains(depth) ==
    IF depth = 0 THEN Leaves
    ELSE Leaves \cup {Wrap(kind, <<c>>) :
                        kind \in WrapKinds, c \in Chains(depth - 1)}

\* the chains, and the wrappers around two children of depth at most one
Trees ==
    Chains(MaxDepth)
        \cup {Wrap(kind, <<c[1], c[2]>>) :
                kind \in WrapKinds, c \in Chains(1) \X Chains(1)}

InitRender ==
    /\ address = None
    /\ mask = 0
    /\ op = "input"
    /\ arg \in [node : Trees, supportmask : 0 .. 3]
    /\ outcome = "ok"
    /\ wire = <<>>
    /\ result = <<>>
    /\ scope = FALSE
    /\ accum = <<>>
    /\ calls = <<>>
    /\ pc = "idle"
    /\ retval = <<>>
    /\ clock = 0
    /\ stream = <<>>
    /\ rendered = <<>>

\* node.render(supportmask) on the drawn tree and mask
render ==
    /\ op = "input"
    /\ Call("render", arg,
            IF RenderOk(arg.node) THEN Done ELSE Fail("EncodingError"))
    /\ rendered' = IF RenderOk(arg.node)
                   THEN Render(arg.node, arg.supportmask) ELSE <<>>
    /\ UNCHANGED <<address, mask, scope, accum, calls, pc, retval, clock,
                   stream>>

NextRender == render

SpecRender == InitRender /\ [][NextRender]_vars

(***************************************************************************)
(* Reading a frame back, for the properties below.  These do not use the   *)
(* framer: a frame is taken apart by position and by table.                *)
(***************************************************************************)
\* the payload of a frame: what lies after the first 0x02, less the last byte
FrameBody(frame) ==
    SubSeq(frame, FindFrom(<<2>>, frame, 1) + 1, Len(frame) - 1)

\* the value of a lower-case hex digit, or -1
HexVal(c) ==
    IF c \in 48 .. 57 THEN c - 48
    ELSE IF c \in 97 .. 102 THEN c - 87
    ELSE 0 - 1

Digits == <<48, 49, 50, 51, 52, 53, 54, 55, 56, 57, 97, 98, 99, 100, 101, 102>>

\* the two hex digits of v in 0..255
Hex2(v) == <<Digits[(v \div 16) + 1], Digits[(v % 16) + 1]>>

\* label is one character in 0x20-0x7E
GoodLabel(label) == Len(label) = 1 /\ label[1] \in 32 .. 126

(***************************************************************************)
(* C1.  A configuration scope writes to the port only when it is left: a   *)
(* set_* call writes nothing; leaving the scope normally writes exactly    *)
(* one command, whose payload is "E$" followed by the accumulated          *)
(* descriptors (nothing is written if the port refuses the write); leaving *)
(* it by an error writes nothing.                                          *)
(***************************************************************************)
C1_CommitOnlyAtExit ==
    [][ scope =>
          /\ scope' => wire' = <<>>
          /\ (~ scope' /\ arg'.type = "Exception") => wire' = <<>>
          /\ (~ scope' /\ arg'.type = "None") =>
                \/ outcome' = "TransportError" /\ wire' = <<>>
                \/ /\ outcome' = "ok"
                   /\ Len(wire') = 1
                   /\ FrameBody(wire'[1]) =
                        <<69, 36>>
                            \o Concat([i \in 1 .. Len(accum) |-> accum[i].val])
      ]_vars

\* a scope was left normally and its commit carries at least one descriptor
C1_Witness ==
    /\ op = "exit"
    /\ arg.type = "None"
    /\ outcome = "ok"
    /\ Len(wire) = 1
    /\ Len(FrameBody(wire[1])) > 2

(***************************************************************************)
(* C2.  Inside a scope the accumulator holds one descriptor per distinct   *)
(* label, that of the last successful call for the label, in the order in  *)
(* which the labels were first set; and the commit payload is "E$"         *)
(* followed by exactly these descriptors.                                  *)
(***************************************************************************)
\* the descriptor of the last call for label
LastVal(cs, label) ==
    LET k == CHOOSE i \in 1 .. Len(cs) :
                /\ cs[i].label = label
                /\ \A j \in (i + 1) .. Len(cs) : cs[j].label # label
    IN  cs[k].val

\* the calls that set a label for the first time
FirstCalls(cs) ==
    SelectSeq([i \in 1 .. Len(cs) |-> [at |-> i, label |-> cs[i].label]],
              LAMBDA c : \A j \in 1 .. (c.at - 1) : cs[j].label # c.label)

\* per distinct label in first-set order, the descriptor set last
ExpectedDescriptors(cs) ==
    [i \in 1 .. Len(FirstCalls(cs)) |-> LastVal(cs, FirstCalls(cs)[i].label)]

C2_LastWriteWins ==
    [][ /\ scope' =>
              /\ Len(accum') = Cardinality({calls'[i].label :
                                                i \in 1 .. Len(calls')})
              /\ [i \in 1 .. Len(accum') |-> accum'[i].val]
                    = ExpectedDescriptors(calls')
        /\ (scope /\ ~ scope' /\ arg'.type = "None" /\ outcome' = "ok") =>
              FrameBody(wire'[1])
                = <<69, 36>> \o Concat(ExpectedDescriptors(calls))
      ]_vars

\* set_text(A), a call for another label, then set_picture(A): two
\* descriptors, the picture one first
C2_Witness ==
    /\ scope
    /\ Len(calls) = 3
    /\ calls[1].label = calls[3].label
    /\ calls[2].label # calls[1].label
    /\ calls[1].val[2] = 65
    /\ calls[3].val[2] = 68
    /\ op = "set_picture"
    /\ Len(accum) = 2
    /\ accum[1].val = calls[3].val

(***************************************************************************)
(* C3.  A call whose arguments fail a validation (bad label, address       *)
(* outside 1..255, illegal mode, empty or non-ASCII text, rows of unequal  *)
(* length, unknown color symbol) raises, writes nothing and leaves the     *)
(* bound address as it was.                                                *)
(***************************************************************************)
\* some Text of the tree is not ASCII
RECURSIVE NonAsciiIn(_)
NonAsciiIn(node) ==
    \/ node.kind = "Text" /\ \E i \in 1 .. Len(node.text) : node.text[i] > 127
    \/ \E i \in 1 .. Len(node.children) : NonAsciiIn(node.children[i])

BadText(text) == text = <<>> \/ \E i \in 1 .. Len(text) : text[i] > 127

BadMode(mode) == mode # <<>> /\ mode \notin LegalModes

\* the symbols write_picture accepts: - R G A r g a
ColorSymbols == {45, 82, 71, 65, 114, 103, 97}

BadPicture(picture) ==
    \/ \E i, j \in 1 .. Len(picture) : Len(picture[i]) # Len(picture[j])
    \/ \E i \in 1 .. Len(picture) : \E j \in 1 .. Len(picture[i]) :
          picture[i][j] \notin ColorSymbols

\* the arguments a of operation o fail a validation
BadInput(o, a) ==
    \/ /\ o \in {"write_text", "write_string", "write_format",
                 "write_picture", "read_string", "set_text", "set_string",
                 "set_picture"}
       /\ ~ GoodLabel(a.label)
    \/ o = "change_address" /\ a.new_address \notin 1 .. 255
    \/ o \in {"write_text", "write_format"} /\ BadMode(a.mode)
    \/ o \in {"write_text", "write_string"} /\ BadText(a.text)
    \/ o = "write_format"
          /\ \E i \in 1 .. Len(a.formatting) : NonAsciiIn(a.formatting[i])
    \/ o = "write_picture" /\ BadPicture(a.picture)

C3_ValidationBeforeWrite ==
    [][ BadInput(op', arg') =>
          /\ wire' = <<>>
          /\ address' = address
          /\ outcome' \notin {"ok", "pending", "TransportError"}
      ]_vars

\* a picture with an unknown symbol was refused on a sign whose address had
\* been changed before
C3_Witness ==
    /\ op = "write_picture"
    /\ outcome = "InvalidColorSymbol"
    /\ wire = <<>>
    /\ address = 255

(***************************************************************************)
(* C4.  A read_string call whose buffer never holds both a start of frame  *)
(* (five 0x00, then 0x01) and an end marker 0x04 ends, and it ends with    *)
(* ReadTimeout: nothing is returned, and the query 'H' + label is the only *)
(* frame the call has written.                                             *)
(***************************************************************************)
FramePresent(buffer) ==
    /\ \E i \in 1 .. Len(buffer) - 5 :
          /\ \A k \in 0 .. 4 : buffer[i + k] = 0
          /\ buffer[i + 5] = 1
    /\ \E i \in 1 .. Len(buffer) : buffer[i] = 4

C4_ReadTimeout ==
    /\ [](op = "read_string" /\ pc \in {"reading", "done"} =>
            /\ Len(wire) = 1
            /\ FrameBody(wire[1]) = <<72>> \o arg.label)
    /\ [](op = "read_string" /\ pc = "done" /\ ~ FramePresent(retval) =>
            outcome = "ReadTimeout" /\ result = <<>>)
    /\ (op = "read_string" /\ pc = "reading") ~> (pc = "done")

\* a read_string call timed out on a frame that began and did not end
C4_Witness ==
    /\ op = "read_string"
    /\ pc = "done"
    /\ outcome = "ReadTimeout"
    /\ Contains(SOF, retval)
    /\ ~ FramePresent(retval)
    /\ Len(retval) > 8

(***************************************************************************)
(* C5.  change_address(n) with n in 1..255 writes "E7" + the two hex       *)
(* digits of n in a frame that carries the address bound before the call,  *)
(* and binds n once the write has returned; with n outside 1..255, or when *)
(* the write fails, the bound address stays.  No other operation changes   *)
(* the bound address, so every frame carries the address bound last.       *)
(***************************************************************************)
\* the address a frame is sent to
FrameAddress(frame) == 16 * HexVal(frame[8]) + HexVal(frame[9])

\* the address _send_command frames with
Bound(a) == IF a = None THEN 0 ELSE a

C5_ChangeAddress ==
    [][ /\ op' = "change_address" =>
            LET n == arg'.new_address
                selector == IF arg'.override_sign_types = NoOverride
                            THEN <<90>> ELSE arg'.override_sign_types
            IN  /\ n \in 1 .. 255 => outcome' \in {"ok", "TransportError"}
                /\ (n \in 1 .. 255 /\ outcome' = "ok") =>
                      /\ address' = n
                      /\ wire' = << <<0, 0, 0, 0, 0, 1>> \o selector
                                      \o Hex2(Bound(address)) \o <<2>>
                                      \o <<69, 55>> \o Hex2(n) \o <<4>> >>
                /\ (n \notin 1 .. 255 \/ outcome' # "ok") =>
                      address' = address /\ wire' = <<>>
        /\ op' # "change_address" =>
              /\ address' = address
              /\ \A i \in 1 .. Len(wire') :
                    FrameAddress(wire'[i]) = Bound(address')
      ]_vars

\* the address went from 1 to 255 in a frame addressed to 1
C5_Witness ==
    /\ op = "change_address"
    /\ outcome = "ok"
    /\ address = 255
    /\ Len(wire) = 1
    /\ SubSeq(wire[1], 8, 9) = <<48, 49>>

(***************************************************************************)
(* C6.  Every frame written is five 0x00, 0x01, one selector byte, exactly *)
(* two lower-case hex digits that encode the bound address (00 for         *)
(* broadcast), 0x02, the payload, 0x04; and the bound address is always    *)
(* in 1..255 or the broadcast sentinel.                                    *)
(***************************************************************************)
WellFormed(frame, a) ==
    /\ Len(frame) >= 11
    /\ \A i \in 1 .. 5 : frame[i] = 0
    /\ frame[6] = 1
    /\ <<frame[7]>> \in SignTypes \cup {<<90>>}
    /\ HexVal(frame[8]) >= 0
    /\ HexVal(frame[9]) >= 0
    /\ FrameAddress(frame) = Bound(a)
    /\ frame[10] = 2
    /\ frame[Len(frame)] = 4

C6_FrameShape ==
    [][ /\ address' = None \/ address' \in 1 .. 255
        /\ \A i \in 1 .. Len(wire') : WellFormed(wire'[i], address)
      ]_vars

\* a string was written to the sign at address 1, framed with "01"
C6_Witness ==
    /\ op = "write_string"
    /\ outcome = "ok"
    /\ address = 1
    /\ Len(wire) = 1
    /\ SubSeq(wire[1], 7, 10) = <<90, 48, 49, 2>>

(***************************************************************************)
(* C7.  write_format with a good label and mode, whose rendered bytes are  *)
(* one segment or which is called without split_animation, writes one      *)
(* command whose payload is 'A' + label + 0x1B + '0' + the mode (AUTOMODE  *)
(* when none is given) + the segments joined by "\r": the header stands    *)
(* once, before the text.                                                  *)
(***************************************************************************)
\* the bytes the formatting renders to under the mask of the sign
RenderedText == RenderAll(arg.formatting, mask)

C7_SingleHeader ==
    ( /\ op = "write_format"
      /\ outcome = "ok"
      /\ \/ ~ arg.split_animation
         \/ \A i \in 1 .. Len(RenderedText) : RenderedText[i] # 13 ) =>
        /\ Len(wire) = 1
        /\ FrameBody(wire[1])
             = <<65>> \o arg.label \o <<27, 48>>
                 \o (IF arg.mode = <<>> THEN <<111>> ELSE arg.mode)
                 \o RenderedText

(***************************************************************************)
(* C8.  write_picture with rows of equal length, more than 31 of them or   *)
(* more than 255 symbols wide, fails with a size limit error and writes    *)
(* nothing (on a port that takes what is written to it).                   *)
(***************************************************************************)
Rectangular(picture) ==
    /\ picture # <<>>
    /\ \A i \in 1 .. Len(picture) : Len(picture[i]) = Len(picture[1])

C8_PictureSizeLimit ==
    ( /\ op = "write_picture"
      /\ GoodLabel(arg.label)
      /\ Rectangular(arg.picture)
      /\ Len(arg.picture) > 31 \/ Len(arg.picture[1]) > 255
      /\ outcome # "TransportError" ) =>
        /\ outcome = "SizeLimitExceeded"
        /\ wire = <<>>

(***************************************************************************)
(* C9.  Rendering under mask 0 gives the bytes of the tree with every      *)
(* Flash and color node replaced by its children; rendering under any mask *)
(* gives the bytes of the tree with the nodes whose bit is missing         *)
(* replaced by their children and all other nodes wrapped; a Flash or      *)
(* color node whose bit is set renders to its children's bytes between its *)
(* open and close pair, and to its children's bytes alone otherwise.       *)
(***************************************************************************)
RECURSIVE StripAll(_, _, _)
\* the nodes with the Flash nodes (dropFlash) and the color nodes
\* (dropColor) below them replaced by their children, in place
StripAll(nodes, dropFlash, dropColor) ==
    IF nodes = <<>> THEN <<>>
    ELSE LET node == Head(nodes)
             below == StripAll(node.children, dropFlash, dropColor)
         IN  (IF \/ node.kind = "Flash" /\ dropFlash
                 \/ node.kind = "Color" /\ dropColor
              THEN below
              ELSE <<[node EXCEPT !.children = below]>>)
                \o StripAll(Tail(nodes), dropFlash, dropColor)

C9_CapabilityMonotone ==
    (op = "render" /\ outcome = "ok") =>
        LET node == arg.node
            m == arg.supportmask
            flash == m \in {1, 3}
            color == m \in {2, 3}
            inside == RenderAll(node.children, m)
        IN  /\ m = 0 =>
                  \A any \in 0 .. 3 :
                      rendered = RenderAll(StripAll(<<node>>, TRUE, TRUE), any)
            /\ rendered = RenderAll(StripAll(<<node>>, ~ flash, ~ color), 3)
            /\ node.kind = "Flash" =>
                  rendered = IF flash THEN <<7, 49>> \o inside \o <<7, 48>>
                             ELSE inside
            /\ node.kind = "Color" =>
                  rendered = IF color
                             THEN <<28, node.code>> \o inside \o <<28, 67>>
                             ELSE inside

\* Flash(Red(Text("a"))) rendered by a sign that flashes and has no colors
C9_Witness ==
    /\ op = "render"
    /\ arg.supportmask = 1
    /\ arg.node.kind = "Flash"
    /\ arg.node.children[1].kind = "Color"
    /\ rendered = <<7, 49, 97, 7, 48>>

(***************************************************************************)
(* C10.  write_picture maps each symbol through seven entries: "-" gives   *)
(* 0x30, "R" "G" "A" give 0x31 0x32 0x33 and "r" "g" "a" give 0x34 0x35    *)
(* 0x36; any other symbol fails with the invalid color error.              *)
(***************************************************************************)
ColorTable(val) ==
    CASE val = 45 -> 48
      [] val = 82 -> 49
      [] val = 71 -> 50
      [] val = 65 -> 51
      [] val = 114 -> 52
      [] val = 103 -> 53
      [] val = 97 -> 54

\* the rows of a written picture: the end of the payload
WrittenRows(frame, picture) ==
    LET body == FrameBody(frame)
        size == Len(picture) * (Len(picture[1]) + 2)
    IN  SubSeq(body, Len(body) - size + 1, Len(body))

C10_ColorLookup ==
    ( /\ op = "write_picture"
      /\ GoodLabel(arg.label)
      /\ Rectangular(arg.picture) ) =>
        IF \A i \in 1 .. Len(arg.picture) : \A j \in 1 .. Len(arg.picture[i]) :
              arg.picture[i][j] \in ColorSymbols
        THEN /\ outcome \in {"ok", "TransportError"}
             /\ outcome = "ok" =>
                   WrittenRows(wire[1], arg.picture)
                     = Concat([i \in 1 .. Len(arg.picture) |->
                                 [j \in 1 .. Len(arg.picture[i]) |->
                                     ColorTable(arg.picture[i][j])]
                                     \o <<13, 10>>])
        ELSE outcome = "InvalidColorSymbol"


(***************************************************************************)
(* C11.  A read_string or read_sign_type call whose buffer holds both a    *)
(* start of frame and an end marker 0x04, wherever they lie, ends in one   *)
(* of two ways: it returns the body that follows the expected tag (the     *)
(* body being cut from the bytes between the first start of frame and the  *)
(* first end marker after it), or it fails with UnexpectedResponse; it     *)
(* fails in no other way.                                                  *)
(***************************************************************************)
\* the bytes between the first start of frame and the first end marker
\* after it (all that follows the start of frame when none comes)
Interior(buffer) == Split1(Split1(buffer, SOF)[2], EOT)[1]

\* the interior after its first payload start, up to a payload end
BodyOf(buffer) ==
    LET parts == Split1(Interior(buffer), STX)
        chunk == parts[Len(parts)]
    IN  Split1(chunk, ETX)[1]

C11_ParseOutcomes ==
    op \in {"read_string", "read_sign_type"} /\ pc = "done"
        /\ FramePresent(retval) =>
            /\ outcome \in {"ok", "UnexpectedResponse"}
            /\ outcome = "ok" =>
                  LET body == BodyOf(retval)
                  IN  /\ SubSeq(body, 1, 2) = ExpectedTag
                      /\ result = IF op = "read_string"
                                  THEN SubSeq(body, 3, Len(body))
                                  ELSE SubSeq(body, 3,
                                         IF Len(body) < 3 THEN Len(body)
                                         ELSE 3)

====
